---- MODULE Spec2Model ----
(***************************************************************************)
(* A model of ProgressManager (src/src/services/progress_manager.py): the  *)
(* in-memory session registry (active_sessions, execution_states,          *)
(* pause_flags) and the file-per-checkpoint store (<id>.json and the       *)
(* companion <id>_state.pkl).  Each public method is one action; the       *)
(* checkpoint written by pause_session and complete_session is part of     *)
(* their action.  Wall-clock values (started_at, timestamp, paused_at,     *)
(* completed_at) and the session keys the code writes but never reads      *)
(* (last_checkpoint, resumed_from) are left out.  `last` records the       *)
(* method called last, its session and what it returned or raised;         *)
(* `notified` the callback invocations that call made, in order.  `disk`   *)
(* is the failure the next file write of create_checkpoint meets, `lock`   *)
(* the thread that holds self.lock and `pc` where each thread is inside    *)
(* the method it is executing.                                             *)
(***************************************************************************)
EXTENDS Integers, Sequences, FiniteSets, TLC

VARIABLES active_sessions, execution_states, pause_flags,
          json_files, pkl_files, id_seq, last,
          progress_callbacks, notified, disk, lock, pc

vars == <<active_sessions, execution_states, pause_flags,
          json_files, pkl_files, id_seq, last,
          progress_callbacks, notified, disk, lock, pc>>

(***************************************************************************)
(* Bounds of the model.                                                    *)
(***************************************************************************)
MaxSteps == 1
MaxCheckpoints == 2
MaxCallbacks == 2

Sessions == {"s1", "s2"}
\* total_steps arguments: the code accepts any integer; 0 stands for the
\* non-positive ones
TotalStepsArgs == {0, MaxSteps}
\* step_index arguments: the code accepts any integer
StepIndexArgs == {0, MaxSteps, MaxSteps + 1}
\* context arguments of start_session: None or a non-empty dict
ContextArgs == {"None", "ctx"}
\* start_session calls: "s2" is started with any total_steps and a context,
\* "s1" with a positive total_steps and no context (this keeps the state
\* space within reach of TLC)
StartArgs ==
    {a \in Sessions \X TotalStepsArgs \X ContextArgs :
        IF a[1] = "s1" THEN a[2] > 0 /\ a[3] = "None" ELSE a[3] = "ctx"}
\* state_data argument of create_checkpoint: a dict holding a bytes value;
\* pause_session passes a dict of JSON-safe values ("plain")
StateDataArgs == {"binary"}
\* final_data argument of complete_session: None
FinalDataArgs == {"None"}
\* the callables given to register_progress_callback: one that returns and
\* one that raises an Exception
Callbacks == {"cb_ok", "cb_raise"}
\* the threads that call the manager
Threads == {"t1", "t2"}
\* the threads that run the job; the others are the controllers
Workers == {"t1"}
\* what can go wrong in the two writes of create_checkpoint: open() raises
\* and leaves no file, or the dump raises and leaves part of the file
JsonFaults == {"json_open", "json_write"}
PklFaults == {"pkl_open", "pkl_write"}

(***************************************************************************)
(* ExecutionState                                                          *)
(***************************************************************************)
RUNNING == "running"
PAUSED == "paused"
COMPLETED == "completed"
ERROR == "error"
CANCELLED == "cancelled"
ExecutionState == {RUNNING, PAUSED, COMPLETED, ERROR, CANCELLED}

(***************************************************************************)
(* Arithmetic: progress_percentage is (step_index / total_steps) * 100, a  *)
(* float.  For the small integers of the model the float is determined by  *)
(* the exact quotient, kept here as a fraction in lowest terms with a      *)
(* positive denominator.                                                   *)
(***************************************************************************)
Abs(n) == IF n < 0 THEN -n ELSE n

RECURSIVE GCD(_, _)
GCD(a, b) == IF b = 0 THEN a ELSE GCD(b, a % b)

Fraction(n, d) ==
    LET g == GCD(Abs(n), Abs(d))
        s == IF d < 0 THEN -1 ELSE 1
    IN  [num |-> (s * n) \div g, den |-> (s * d) \div g]

\* (step_index / total_steps) * 100, total_steps # 0
Percentage(step_index, total_steps) == Fraction(step_index * 100, total_steps)

PctLeq(p, q) == p.num * q.den <= q.num * p.den
PctOfInt(n) == [num |-> n, den |-> 1]

(***************************************************************************)
(* `x or {}`                                                               *)
(***************************************************************************)
OrEmpty(x) == IF x = "None" THEN "empty" ELSE x

(***************************************************************************)
(* json.dump(..., default=str): a bytes value is written as its str() text *)
(***************************************************************************)
JsonDump(state_data) == IF state_data = "binary" THEN "binary_as_str" ELSE state_data

\* any(isinstance(v, (bytes, object)) for v in state_data.values()):
\* every value is an object, so this is "state_data has a value"
NeedsStateFile(state_data) == state_data # "empty"

(***************************************************************************)
(* checkpoint_id = f"checkpoint_{ms}_{uuid4().hex[:8]}": a fresh id        *)
(***************************************************************************)
\* an id that repeats the previous one (two calls within one clock tick and
\* no random suffix)
NewCheckpointId_Repeated == IF id_seq = 0 THEN 1 ELSE id_seq

NewCheckpointId == id_seq + 1

(***************************************************************************)
(* Helpers on the registry                                                 *)
(***************************************************************************)
Known(session_id) == session_id \in DOMAIN active_sessions

\* d[k] = v on a dict
Put(d, k, v) == [x \in DOMAIN d \cup {k} |-> IF x = k THEN v ELSE d[x]]

Result(op, session_id, ret) ==
    [op |-> op, session_id |-> session_id, ret |-> ret]

\* a thread that is in no method
Idle == [op |-> "idle"]

\* a call that reaches no callback
NoCallbacks == notified' = << >> /\ UNCHANGED progress_callbacks

(***************************************************************************)
(* register_progress_callback / _notify_progress_callbacks                 *)
(***************************************************************************)
register_progress_callback(session_id, callback) ==
    /\ session_id \in DOMAIN progress_callbacks
           => Len(progress_callbacks[session_id]) < MaxCallbacks
    /\ progress_callbacks' =
           IF session_id \notin DOMAIN progress_callbacks
           THEN Put(progress_callbacks, session_id, <<callback>>)
           ELSE [progress_callbacks EXCEPT ![session_id] = Append(@, callback)]
    /\ notified' = << >>
    /\ last' = Result("register_progress_callback", session_id, "None")
    /\ UNCHANGED <<disk, lock, pc>>
    /\ UNCHANGED <<active_sessions, execution_states, pause_flags,
                   json_files, pkl_files, id_seq>>

\* the callbacks registered for session s, in registration order
Registered(s) ==
    IF s \in DOMAIN progress_callbacks THEN progress_callbacks[s] ELSE << >>

\* callback(checkpoint) calls self.cancel_session(checkpoint.session_id), one
\* of the methods that take self.lock
Reenters(callback) == callback = "cb_cancel"

\* callback(checkpoint) raises an Exception
Raises(callback) == callback = "cb_raise"

Invocation(callback, checkpoint_id) == [callback |-> callback, checkpoint_id |-> checkpoint_id]

\* a loop without the try/except: the first exception ends it and propagates
RECURSIVE NotifyLoop_NoCatch(_, _, _)
NotifyLoop_NoCatch(callbacks, i, checkpoint_id) ==
    IF i > Len(callbacks) THEN [invoked |-> << >>, raised |-> FALSE]
    ELSE IF Raises(callbacks[i])
         THEN [invoked |-> <<Invocation(callbacks[i], checkpoint_id)>>, raised |-> TRUE]
         ELSE LET rest == NotifyLoop_NoCatch(callbacks, i + 1, checkpoint_id) IN
              [invoked |-> <<Invocation(callbacks[i], checkpoint_id)>> \o rest.invoked,
               raised |-> rest.raised]

\* for callback in callbacks: try: callback(checkpoint) except Exception: log
RECURSIVE NotifyLoop(_, _, _)
NotifyLoop(callbacks, i, checkpoint_id) ==
    IF i > Len(callbacks) THEN [invoked |-> << >>, raised |-> FALSE]
    ELSE LET rest == NotifyLoop(callbacks, i + 1, checkpoint_id) IN
         [invoked |-> <<Invocation(callbacks[i], checkpoint_id)>> \o rest.invoked,
          raised |-> rest.raised]

\* callbacks = self.progress_callbacks.get(session_id, [])
notify_progress_callbacks(session_id, checkpoint_id) ==
    NotifyLoop(IF session_id \in DOMAIN progress_callbacks
               THEN progress_callbacks[session_id] ELSE << >>,
               1, checkpoint_id)

(***************************************************************************)
(* ProgressManager.__init__                                                *)
(***************************************************************************)
Init ==
    /\ active_sessions = << >>
    /\ execution_states = << >>
    /\ pause_flags = << >>
    /\ json_files = << >>
    /\ pkl_files = << >>
    /\ id_seq = 0
    /\ last = Result("init", "", "None")
    /\ progress_callbacks = << >>
    /\ notified = << >>
    /\ disk = "ok"
    /\ lock = "none"
    /\ pc = [t \in Threads |-> Idle]

(***************************************************************************)
(* start_session: no validation of total_steps; overwrites an entry        *)
(***************************************************************************)
NewSession(total_steps, context) ==
    [total_steps |-> total_steps,
     current_step |-> 0,
     context |-> OrEmpty(context),
     checkpoints |-> << >>]

start_session(session_id, total_steps, context) ==
    /\ active_sessions' = Put(active_sessions, session_id, NewSession(total_steps, context))
    /\ execution_states' = Put(execution_states, session_id, RUNNING)
    /\ pause_flags' = Put(pause_flags, session_id, FALSE)
    /\ last' = Result("start_session", session_id, session_id)
    /\ NoCallbacks
    /\ UNCHANGED <<disk, lock, pc>>
    /\ UNCHANGED <<json_files, pkl_files, id_seq>>

(***************************************************************************)
(* create_checkpoint                                                       *)
(***************************************************************************)
\* the exception create_checkpoint raises, "" when it raises none
\* a create_checkpoint without the membership test of its first lines: the
\* lookup of the session raises KeyError
CheckpointError_NoTest(session_id) ==
    IF ~Known(session_id) THEN "KeyError"
    ELSE IF active_sessions[session_id].total_steps = 0 THEN "ZeroDivisionError"
    ELSE ""

CheckpointError(session_id) ==
    IF ~Known(session_id) THEN "ValueError"
    ELSE IF active_sessions[session_id].total_steps = 0 THEN "ZeroDivisionError"
    ELSE ""

Checkpoint(session_id, checkpoint_id, current_step, step_index, state_data, next_action, metadata) ==
    LET session == active_sessions[session_id] IN
    [session_id |-> session_id,
     checkpoint_id |-> checkpoint_id,
     current_step |-> current_step,
     step_index |-> step_index,
     total_steps |-> session.total_steps,
     progress_percentage |-> Percentage(step_index, session.total_steps),
     state_data |-> state_data,
     execution_context |-> session.context,
     next_action |-> next_action,
     metadata |-> OrEmpty(metadata)]

\* json.dump(asdict(checkpoint), ..., default=str): the three open dicts go
\* through the JSON encoding
JsonRecord(checkpoint) ==
    [checkpoint EXCEPT !.state_data = JsonDump(@),
                       !.execution_context = JsonDump(@),
                       !.metadata = JsonDump(@)]

\* "Atualiza sessao": history append and current_step
UpdateSession(session, checkpoint_id, step_index) ==
    [session EXCEPT !.checkpoints = Append(@, checkpoint_id),
                    !.current_step = step_index]

\* the write of <id>.json or of <id>_state.pkl raises
WriteFails(state_data) ==
    disk \in JsonFaults \/ (disk \in PklFaults /\ NeedsStateFile(state_data))

\* a file that holds the first part of what was being dumped
TornJson == [torn |-> TRUE]
TornPkl == "torn"

\* <id>.json after a failed write: absent when open() raised, torn when the
\* dump raised, complete when the failure came later, in the companion file
FailedJson(session_id, checkpoint_id, current_step, step_index, state_data, next_action, metadata) ==
    IF disk = "json_open" THEN json_files
    ELSE IF disk = "json_write" THEN Put(json_files, checkpoint_id, TornJson)
    ELSE Put(json_files, checkpoint_id,
             JsonRecord(Checkpoint(session_id, checkpoint_id, current_step, step_index,
                                   state_data, next_action, metadata)))

\* <id>_state.pkl after a failed write
FailedPkl(checkpoint_id) ==
    IF disk = "pkl_write" THEN Put(pkl_files, checkpoint_id, TornPkl) ELSE pkl_files

\* the effect of create_checkpoint on the registry entry and on the store
CreateCheckpointEffect(session_id, current_step, step_index, state_data, next_action, metadata) ==
    IF CheckpointError(session_id) # "" THEN
        /\ NoCallbacks
        /\ UNCHANGED <<disk, lock, pc>>
        /\ UNCHANGED <<active_sessions, json_files, pkl_files, id_seq>>
    ELSE IF WriteFails(state_data) THEN
        /\ id_seq' = id_seq + 1
        /\ json_files' = FailedJson(session_id, NewCheckpointId, current_step, step_index,
                                    state_data, next_action, metadata)
        /\ pkl_files' = FailedPkl(NewCheckpointId)
        /\ disk' = "ok"
        /\ NoCallbacks
        /\ UNCHANGED <<active_sessions, lock, pc>>
    ELSE
        LET checkpoint_id == NewCheckpointId
            checkpoint == Checkpoint(session_id, checkpoint_id, current_step, step_index,
                                     state_data, next_action, metadata)
        IN  /\ id_seq' = id_seq + 1
            /\ json_files' = Put(json_files, checkpoint_id, JsonRecord(checkpoint))
            /\ pkl_files' = IF NeedsStateFile(state_data)
                            THEN Put(pkl_files, checkpoint_id, state_data)
                            ELSE pkl_files
            /\ active_sessions' =
                   [active_sessions EXCEPT ![session_id] =
                        UpdateSession(@, checkpoint_id, step_index)]
            /\ notified' = notify_progress_callbacks(session_id, checkpoint_id).invoked
            /\ disk' = "ok"
            /\ UNCHANGED <<progress_callbacks, lock, pc>>

\* what a call of create_checkpoint raises, "" when it returns the id: its own
\* errors, or an exception that escapes the notification loop
Raised(session_id, state_data) ==
    IF CheckpointError(session_id) # "" THEN CheckpointError(session_id)
    ELSE IF WriteFails(state_data) THEN "OSError"
    ELSE IF notify_progress_callbacks(session_id, NewCheckpointId).raised THEN "CallbackError"
    ELSE ""

CanCreate(session_id) == CheckpointError(session_id) # "" \/ id_seq < MaxCheckpoints

create_checkpoint(session_id, current_step, step_index, state_data) ==
    /\ CanCreate(session_id)
    /\ CreateCheckpointEffect(session_id, current_step, step_index, state_data, "", "None")
    /\ last' = IF Raised(session_id, state_data) # ""
               THEN Result("create_checkpoint", session_id, Raised(session_id, state_data))
               ELSE Result("create_checkpoint", session_id, "id")
    /\ UNCHANGED <<execution_states, pause_flags>>

(***************************************************************************)
(* pause_session: no check of the current state                            *)
(***************************************************************************)
pause_session(session_id) ==
    IF Known(session_id) THEN
        /\ CanCreate(session_id)
        /\ pause_flags' = [pause_flags EXCEPT ![session_id] = TRUE]
        /\ execution_states' = [execution_states EXCEPT ![session_id] = PAUSED]
        /\ CreateCheckpointEffect(session_id, "PAUSED",
                                  active_sessions[session_id].current_step,
                                  "plain", "resume_execution", "pause_reason")
        /\ last' = IF Raised(session_id, "plain") # ""
                   THEN Result("pause_session", session_id, Raised(session_id, "plain"))
                   ELSE Result("pause_session", session_id, "True")
    ELSE
        /\ last' = Result("pause_session", session_id, "False")
        /\ NoCallbacks
        /\ UNCHANGED <<disk, lock, pc>>
        /\ UNCHANGED <<active_sessions, execution_states, pause_flags,
                       json_files, pkl_files, id_seq>>

(***************************************************************************)
(* resume_session                                                          *)
(***************************************************************************)
\* a resume_session that forgets to look at the current state
CanResume_AnyState(session_id) == Known(session_id)

CanResume(session_id) ==
    Known(session_id) /\ execution_states[session_id] = PAUSED

resume_session(session_id) ==
    IF CanResume(session_id) THEN
        /\ pause_flags' = [pause_flags EXCEPT ![session_id] = FALSE]
        /\ execution_states' = [execution_states EXCEPT ![session_id] = RUNNING]
        /\ last' = Result("resume_session", session_id, "True")
        /\ NoCallbacks
        /\ UNCHANGED <<disk, lock, pc>>
        /\ UNCHANGED <<active_sessions, json_files, pkl_files, id_seq>>
    ELSE
        /\ last' = Result("resume_session", session_id, "False")
        /\ NoCallbacks
        /\ UNCHANGED <<disk, lock, pc>>
        /\ UNCHANGED <<active_sessions, execution_states, pause_flags,
                       json_files, pkl_files, id_seq>>

\* is_paused: self.pause_flags.get(session_id, False)
is_paused(session_id) ==
    IF session_id \in DOMAIN pause_flags THEN pause_flags[session_id] ELSE FALSE

(***************************************************************************)
(* wait_if_paused, called by a worker thread t: while self.is_paused(s):   *)
(* time.sleep(check_interval).  One step is one evaluation of the loop     *)
(* condition, followed by the sleep or by the return; `slept` tells that   *)
(* the call has slept.                                                     *)
(***************************************************************************)
enter_wait_if_paused(t, session_id) ==
    /\ pc[t] = Idle
    /\ pc' = [pc EXCEPT ![t] = [op |-> "wait_if_paused", session_id |-> session_id,
                                slept |-> FALSE]]
    /\ UNCHANGED <<active_sessions, execution_states, pause_flags, json_files, pkl_files,
                   id_seq, last, progress_callbacks, notified, disk, lock>>

\* a loop that looks at the flag when it is called and not again after a sleep
wait_if_paused_NoRecheck(t) ==
    /\ pc[t].op = "wait_if_paused"
    /\ IF is_paused(pc[t].session_id) \/ pc[t].slept
       THEN pc' = [pc EXCEPT ![t].slept = TRUE] /\ UNCHANGED <<last, notified>>
       ELSE /\ pc' = [pc EXCEPT ![t] = Idle]
            /\ last' = Result("wait_if_paused", pc[t].session_id, "None")
            /\ notified' = << >>
    /\ UNCHANGED <<active_sessions, execution_states, pause_flags, json_files, pkl_files,
                   id_seq, progress_callbacks, disk, lock>>

wait_if_paused(t) ==
    /\ pc[t].op = "wait_if_paused"
    /\ IF is_paused(pc[t].session_id)
       THEN pc' = [pc EXCEPT ![t].slept = TRUE] /\ UNCHANGED <<last, notified>>
       ELSE /\ pc' = [pc EXCEPT ![t] = Idle]
            /\ last' = Result("wait_if_paused", pc[t].session_id, "None")
            /\ notified' = << >>
    /\ UNCHANGED <<active_sessions, execution_states, pause_flags, json_files, pkl_files,
                   id_seq, progress_callbacks, disk, lock>>

(***************************************************************************)
(* complete_session / cancel_session: no check of the current state        *)
(***************************************************************************)
complete_session(session_id, final_data) ==
    IF Known(session_id) THEN
        /\ CanCreate(session_id)
        /\ execution_states' = [execution_states EXCEPT ![session_id] = COMPLETED]
        /\ CreateCheckpointEffect(session_id, "COMPLETED",
                                  active_sessions[session_id].total_steps,
                                  OrEmpty(final_data), "session_complete", "completed_at")
        /\ last' = IF Raised(session_id, OrEmpty(final_data)) # ""
                   THEN Result("complete_session", session_id, Raised(session_id, OrEmpty(final_data)))
                   ELSE Result("complete_session", session_id, "None")
        /\ UNCHANGED pause_flags
    ELSE
        /\ last' = Result("complete_session", session_id, "None")
        /\ NoCallbacks
        /\ UNCHANGED <<disk, lock, pc>>
        /\ UNCHANGED <<active_sessions, execution_states, pause_flags,
                       json_files, pkl_files, id_seq>>

cancel_session(session_id) ==
    IF Known(session_id) THEN
        /\ execution_states' = [execution_states EXCEPT ![session_id] = CANCELLED]
        /\ pause_flags' = [pause_flags EXCEPT ![session_id] = FALSE]
        /\ last' = Result("cancel_session", session_id, "None")
        /\ NoCallbacks
        /\ UNCHANGED <<disk, lock, pc>>
        /\ UNCHANGED <<active_sessions, json_files, pkl_files, id_seq>>
    ELSE
        /\ last' = Result("cancel_session", session_id, "None")
        /\ NoCallbacks
        /\ UNCHANGED <<disk, lock, pc>>
        /\ UNCHANGED <<active_sessions, execution_states, pause_flags,
                       json_files, pkl_files, id_seq>>

(***************************************************************************)
(* load_checkpoint / continue_from_checkpoint                              *)
(***************************************************************************)
\* json.load or pickle.load raises on a torn file; the except clause turns
\* that into None
Unreadable(checkpoint_id) ==
    \/ json_files[checkpoint_id] = TornJson
    \/ checkpoint_id \in DOMAIN pkl_files /\ pkl_files[checkpoint_id] = TornPkl

load_checkpoint(checkpoint_id) ==
    IF checkpoint_id \notin DOMAIN json_files THEN [found |-> FALSE]
    ELSE IF Unreadable(checkpoint_id) THEN [found |-> FALSE]
    ELSE LET data == json_files[checkpoint_id] IN
         [found |-> TRUE,
          checkpoint |-> IF checkpoint_id \in DOMAIN pkl_files
                         THEN [data EXCEPT !.state_data = pkl_files[checkpoint_id]]
                         ELSE data]

\* a restore that starts the session over from step 0
RestoredSession_FromStart(checkpoint, checkpoint_id) ==
    [total_steps |-> checkpoint.total_steps,
     current_step |-> 0,
     context |-> checkpoint.execution_context,
     checkpoints |-> <<checkpoint_id>>]

RestoredSession(checkpoint, checkpoint_id) ==
    [total_steps |-> checkpoint.total_steps,
     current_step |-> checkpoint.step_index,
     context |-> checkpoint.execution_context,
     checkpoints |-> <<checkpoint_id>>]

continue_from_checkpoint(checkpoint_id) ==
    LET loaded == load_checkpoint(checkpoint_id) IN
    IF ~loaded.found THEN
        /\ last' = Result("continue_from_checkpoint", "", "None")
        /\ NoCallbacks
        /\ UNCHANGED <<disk, lock, pc>>
        /\ UNCHANGED <<active_sessions, execution_states, pause_flags,
                       json_files, pkl_files, id_seq>>
    ELSE
        LET session_id == loaded.checkpoint.session_id IN
        /\ active_sessions' = Put(active_sessions, session_id,
                                  RestoredSession(loaded.checkpoint, checkpoint_id))
        /\ execution_states' = Put(execution_states, session_id, RUNNING)
        /\ pause_flags' = Put(pause_flags, session_id, FALSE)
        /\ last' = Result("continue_from_checkpoint", session_id, "dict")
        /\ NoCallbacks
        /\ UNCHANGED <<disk, lock, pc>>
        /\ UNCHANGED <<json_files, pkl_files, id_seq>>

(***************************************************************************)
(* get_session_progress: a read; the percentage divides by total_steps     *)
(***************************************************************************)
get_session_progress(session_id) ==
    IF ~Known(session_id) THEN [ret |-> "None"]
    ELSE LET session == active_sessions[session_id] IN
         IF session.total_steps = 0 THEN [ret |-> "ZeroDivisionError"]
         ELSE [ret |-> "dict",
               session_id |-> session_id,
               current_step |-> session.current_step,
               total_steps |-> session.total_steps,
               progress_percentage |-> Percentage(session.current_step, session.total_steps),
               state |-> execution_states[session_id],
               is_paused |-> is_paused(session_id),
               checkpoints_count |-> Len(session.checkpoints)]

(***************************************************************************)
(* list_session_checkpoints: a read; an id whose checkpoint does not load  *)
(* is skipped                                                              *)
(***************************************************************************)
Summary(checkpoint_id, checkpoint) ==
    [checkpoint_id |-> checkpoint_id,
     current_step |-> checkpoint.current_step,
     progress_percentage |-> checkpoint.progress_percentage,
     next_action |-> checkpoint.next_action]

RECURSIVE ListLoop(_, _)
ListLoop(checkpoints, i) ==
    IF i > Len(checkpoints) THEN << >>
    ELSE LET loaded == load_checkpoint(checkpoints[i]) IN
         (IF loaded.found THEN <<Summary(checkpoints[i], loaded.checkpoint)>> ELSE << >>)
             \o ListLoop(checkpoints, i + 1)

list_session_checkpoints(session_id) ==
    IF ~Known(session_id) THEN << >>
    ELSE ListLoop(active_sessions[session_id].checkpoints, 1)

(***************************************************************************)
(* cleanup_old_checkpoints.  Time is counted in hours and the clock moves  *)
(* on by one hour with every checkpoint id generated, so the file of       *)
(* checkpoint c was last modified at hour c.  `time` is what time.time()   *)
(* returns to the sweep and `failing` the files on which os.remove raises. *)
(***************************************************************************)
mtime(checkpoint_id) == checkpoint_id

JsonFile(checkpoint_id) == <<"json", checkpoint_id>>
StateFile(checkpoint_id) == <<"pkl", checkpoint_id>>

Restrict(d, keys) == [x \in keys |-> d[x]]

\* the .json files with getmtime(filepath) < cutoff_time
Expired(max_age_hours, time) ==
    {c \in DOMAIN json_files : mtime(c) < time - max_age_hours}

\* a sweep without the try/except: the first failing os.remove ends it (the
\* failing file being the first one listed)
RemovedJson_Abort(expired, failing) ==
    IF \E c \in expired : JsonFile(c) \in failing \/ StateFile(c) \in failing
    THEN {} ELSE expired

\* the .json files the sweep removes
RemovedJson(expired, failing) == {c \in expired : JsonFile(c) \notin failing}

\* the companion files the sweep removes: after their .json file
RemovedState(expired, failing) ==
    {c \in RemovedJson(expired, failing) :
        c \in DOMAIN pkl_files /\ StateFile(c) \notin failing}

cleanup_old_checkpoints(max_age_hours, time, failing) ==
    LET expired == Expired(max_age_hours, time) IN
    /\ json_files' = Restrict(json_files, DOMAIN json_files \ RemovedJson(expired, failing))
    /\ pkl_files' = Restrict(pkl_files, DOMAIN pkl_files \ RemovedState(expired, failing))
    /\ last' = Result("cleanup_old_checkpoints", "", "None")
    /\ NoCallbacks
    /\ UNCHANGED <<disk, lock, pc>>
    /\ UNCHANGED <<active_sessions, execution_states, pause_flags, id_seq>>

(***************************************************************************)
(* The callers: any method, any argument, in any order                     *)
(***************************************************************************)
Next ==
    \/ \E a \in StartArgs : start_session(a[1], a[2], a[3])
    \/ \E s \in Sessions, i \in StepIndexArgs, d \in StateDataArgs :
           create_checkpoint(s, "step", i, d)
    \/ \E s \in Sessions : pause_session(s)
    \/ \E s \in Sessions : resume_session(s)
    \/ \E s \in Sessions, d \in FinalDataArgs : complete_session(s, d)
    \/ \E s \in Sessions : cancel_session(s)
    \/ \E c \in 1 .. (MaxCheckpoints + 1) : continue_from_checkpoint(c)

Spec == Init /\ [][Next]_vars

(***************************************************************************)
(* A new process: ProgressManager() starts with an empty registry and no   *)
(* callbacks; makedirs(exist_ok=True) keeps the checkpoint files            *)
(***************************************************************************)
restart ==
    /\ active_sessions' = << >>
    /\ execution_states' = << >>
    /\ pause_flags' = << >>
    /\ progress_callbacks' = << >>
    /\ notified' = << >>
    /\ last' = Result("init", "", "None")
    /\ disk' = "ok"
    /\ lock' = "none"
    /\ pc' = [t \in Threads |-> Idle]
    /\ UNCHANGED <<json_files, pkl_files, id_seq>>

CheckpointIdArgs == 1 .. (MaxCheckpoints + 1)

NextRestart ==
    \/ \E a \in StartArgs : a[2] > 0 /\ start_session(a[1], a[2], a[3])
    \/ \E s \in Sessions, i \in StepIndexArgs, d \in StateDataArgs :
           create_checkpoint(s, "step", i, d)
    \/ \E s \in Sessions : pause_session(s)
    \/ \E s \in Sessions, d \in FinalDataArgs : complete_session(s, d)
    \/ \E s \in Sessions : cancel_session(s)
    \/ \E c \in CheckpointIdArgs : continue_from_checkpoint(c)
    \/ restart

SpecRestart == Init /\ [][NextRestart]_vars

(***************************************************************************)
(* Callers that also register callbacks                                    *)
(***************************************************************************)
\* "s1" registers any callback, "s2" the one that returns
RegisterArgs == {a \in Sessions \X Callbacks : a[1] = "s2" => ~Raises(a[2])}

NextCallbacks ==
    \/ \E a \in StartArgs : a[2] > 0 /\ start_session(a[1], a[2], a[3])
    \/ \E a \in RegisterArgs : register_progress_callback(a[1], a[2])
    \/ \E s \in Sessions, d \in StateDataArgs : create_checkpoint(s, "step", MaxSteps, d)
    \/ \E s \in Sessions : pause_session(s)
    \/ \E s \in Sessions, d \in FinalDataArgs : complete_session(s, d)

SpecCallbacks == Init /\ [][NextCallbacks]_vars

(***************************************************************************)
(* Callers that also sweep the store                                       *)
(***************************************************************************)
\* max_age_hours arguments: none and one hour
HoursArgs == {0, 1}
\* the clock readings a sweep can get: the hour of the last write, or one or
\* two hours later
TimeArgs == {id_seq + h : h \in {0, 1, 2}}
\* at most one file on which os.remove raises
FailingArgs ==
    {{}} \cup {{JsonFile(c)} : c \in DOMAIN json_files}
         \cup {{StateFile(c)} : c \in DOMAIN pkl_files}

NextCleanup ==
    \/ \E a \in StartArgs : a[2] > 0 /\ start_session(a[1], a[2], a[3])
    \/ \E s \in Sessions, d \in StateDataArgs : create_checkpoint(s, "step", MaxSteps, d)
    \/ \E s \in Sessions : pause_session(s)
    \/ \E m \in HoursArgs, n \in TimeArgs, f \in FailingArgs :
           cleanup_old_checkpoints(m, n, f)

SpecCleanup == Init /\ [][NextCleanup]_vars

(***************************************************************************)
(* Callers whose context and state_data are any of the open bags: None or  *)
(* empty, JSON-safe values only, or a bytes value among them               *)
(***************************************************************************)
BagArgs == {"None", "ctx", "binary"}

NextRoundTrip ==
    \/ \E s \in Sessions, x \in BagArgs : start_session(s, MaxSteps, x)
    \/ \E s \in Sessions, i \in StepIndexArgs, d \in BagArgs :
           create_checkpoint(s, "step", i, OrEmpty(d))
    \/ \E s \in Sessions : pause_session(s)

SpecRoundTrip == Init /\ [][NextRoundTrip]_vars

(***************************************************************************)
(* Callers on a file system that can fail: disk_fault makes the next       *)
(* create_checkpoint meet the failure f in one of its two writes           *)
(***************************************************************************)
disk_fault(f) ==
    /\ disk = "ok"
    /\ disk' = f
    /\ UNCHANGED <<active_sessions, execution_states, pause_flags, json_files, pkl_files,
                   id_seq, last, progress_callbacks, notified, lock, pc>>

NextFaults ==
    \/ \E a \in StartArgs : a[2] > 0 /\ start_session(a[1], a[2], a[3])
    \/ \E s \in Sessions, d \in StateDataArgs : create_checkpoint(s, "step", MaxSteps, d)
    \/ \E s \in Sessions : pause_session(s)
    \/ \E s \in Sessions, d \in FinalDataArgs : complete_session(s, d)
    \/ \E f \in JsonFaults \cup PklFaults : disk_fault(f)

SpecFaults == Init /\ [][NextFaults]_vars

(***************************************************************************)
(* Controllers that pause, resume, cancel and complete sessions while      *)
(* worker threads wait in wait_if_paused.  A worker that is in the loop    *)
(* gets to evaluate its condition again: the sleep ends.                   *)
(***************************************************************************)
NextWait ==
    \/ \E a \in StartArgs : a[2] > 0 /\ start_session(a[1], a[2], a[3])
    \/ \E s \in Sessions : pause_session(s)
    \/ \E s \in Sessions : resume_session(s)
    \/ \E s \in Sessions, d \in FinalDataArgs : complete_session(s, d)
    \/ \E s \in Sessions : cancel_session(s)
    \/ \E t \in Workers, s \in Sessions : enter_wait_if_paused(t, s)
    \/ \E t \in Workers : wait_if_paused(t)

SpecWait == Init /\ [][NextWait]_vars /\ \A t \in Workers : WF_vars(wait_if_paused(t))

(***************************************************************************)
(* Threads.  Each method is run by a thread t line by line: pc[t] is the   *)
(* frame of the call, with the line it executes next and its locals.  One  *)
(* step is one store into, or one read of, a dict of the registry (each is *)
(* atomic under the interpreter lock); a thread that finds self.lock taken *)
(* waits before its call.  `ref` tells whether the local `session` is the  *)
(* dict the registry holds ("live") or one that start_session or           *)
(* continue_from_checkpoint has replaced since ("stale", kept in           *)
(* `session`).  `before` is what a read of the session gave when the call  *)
(* began and `views` what reads gave during a get_session_progress call,   *)
(* before and after the calls that ran beside it.                          *)
(***************************************************************************)
\* what a read gives that finds no complete record: None or an exception
NoView(session_id, ret) ==
    [ret |-> ret, session_id |-> session_id, current_step |-> 0, total_steps |-> 0,
     progress_percentage |-> PctOfInt(0), state |-> "", is_paused |-> FALSE,
     checkpoints_count |-> 0]

View(session_id) ==
    IF ~Known(session_id) THEN NoView(session_id, "None")
    ELSE IF session_id \notin DOMAIN execution_states THEN NoView(session_id, "KeyError")
    ELSE get_session_progress(session_id)

Frame(op, session_id, line) ==
    [op |-> op, session_id |-> session_id, line |-> line,
     ref |-> "none", session |-> << >>, checkpoint_id |-> 0, step_index |-> 0,
     index |-> 0,
     before |-> View(session_id), views |-> {}, result |-> << >>]

At(t, line) == [pc[t] EXCEPT !.line = line]

\* the lines at which a call has made the first of its stores into the
\* registry and not yet the last
MidSection ==
    {<<"start_session", 70>>, <<"start_session", 71>>,
     <<"pause_session", 137>>, <<"pause_session", 141>>,
     <<"pause_session", 121>>, <<"pause_session", 122>>,
     <<"resume_session", 159>>,
     <<"complete_session", 294>>, <<"complete_session", 121>>,
     <<"complete_session", 122>>,
     <<"cancel_session", 310>>,
     <<"create_checkpoint", 122>>,
     <<"continue_from_checkpoint", 218>>, <<"continue_from_checkpoint", 219>>}

InSection(frame) == frame.op # "idle" /\ <<frame.op, frame.line>> \in MidSection

\* the calls a read must not see half done
Transitions ==
    {"start_session", "pause_session", "resume_session", "cancel_session",
     "continue_from_checkpoint"}

HalfDone(frame) == InSection(frame) /\ frame.op \in Transitions

\* pc after a step of thread t on session_id that leaves t in `frame`: a
\* `session` local of another thread goes stale when the step replaced the
\* entry, and a get_session_progress call running beside it gets the view
\* the registry gives now
After(t, frame, session_id, replaced) ==
    [u \in Threads |->
        IF u = t THEN frame
        ELSE IF pc[u].op = "idle" THEN pc[u]
        ELSE IF pc[u].session_id # session_id THEN pc[u]
        ELSE LET held == IF replaced /\ pc[u].ref = "live"
                         THEN [pc[u] EXCEPT !.ref = "stale",
                                            !.session = active_sessions[session_id]]
                         ELSE pc[u]
             IN  IF held.op = "get_session_progress" /\ ~HalfDone(frame)
                 THEN [held EXCEPT !.views = @ \cup {View(s)' : s \in {session_id}}]
                 ELSE held]

\* the dict the local `session` of thread t refers to
Session(t) ==
    IF pc[t].ref = "stale" THEN pc[t].session ELSE active_sessions[pc[t].session_id]

thread_start_session(t, session_id) ==
    /\ UNCHANGED <<json_files, pkl_files, id_seq, progress_callbacks, disk>>
    /\ IF pc[t].op = "idle" THEN
           /\ lock = "none"
           /\ lock' = t
           /\ pc' = [pc EXCEPT ![t] = Frame("start_session", session_id, 63)]
           /\ UNCHANGED <<active_sessions, execution_states, pause_flags, last, notified>>
       ELSE
           /\ pc[t].op = "start_session" /\ pc[t].session_id = session_id
           /\ CASE pc[t].line = 63 ->
                     /\ active_sessions' =
                            Put(active_sessions, session_id, NewSession(MaxSteps, "None"))
                     /\ UNCHANGED <<execution_states, pause_flags, lock, last, notified>>
                     /\ pc' = After(t, At(t, 70), session_id, TRUE)
                [] pc[t].line = 70 ->
                     /\ execution_states' = Put(execution_states, session_id, RUNNING)
                     /\ UNCHANGED <<active_sessions, pause_flags, lock, last, notified>>
                     /\ pc' = After(t, At(t, 71), session_id, FALSE)
                [] pc[t].line = 71 ->
                     /\ pause_flags' = Put(pause_flags, session_id, FALSE)
                     /\ lock' = "none"
                     /\ last' = Result("start_session", session_id, session_id)
                     /\ notified' = << >>
                     /\ UNCHANGED <<active_sessions, execution_states>>
                     /\ pc' = After(t, Idle, session_id, FALSE)

thread_resume_session(t, session_id) ==
    /\ UNCHANGED <<active_sessions, json_files, pkl_files, id_seq, progress_callbacks, disk>>
    /\ IF pc[t].op = "idle" THEN
           /\ lock = "none"
           /\ UNCHANGED <<execution_states, pause_flags>>
           /\ IF Known(session_id) /\ session_id \notin DOMAIN execution_states
              THEN /\ last' = Result("resume_session", session_id, "KeyError")
                   /\ notified' = << >>
                   /\ UNCHANGED <<lock, pc>>
              ELSE IF CanResume(session_id)
              THEN /\ lock' = t
                   /\ pc' = [pc EXCEPT ![t] = Frame("resume_session", session_id, 158)]
                   /\ UNCHANGED <<last, notified>>
              ELSE /\ last' = Result("resume_session", session_id, "False")
                   /\ notified' = << >>
                   /\ UNCHANGED <<lock, pc>>
       ELSE
           /\ pc[t].op = "resume_session" /\ pc[t].session_id = session_id
           /\ CASE pc[t].line = 158 ->
                     /\ pause_flags' = Put(pause_flags, session_id, FALSE)
                     /\ UNCHANGED <<execution_states, lock, last, notified>>
                     /\ pc' = After(t, At(t, 159), session_id, FALSE)
                [] pc[t].line = 159 ->
                     /\ execution_states' = Put(execution_states, session_id, RUNNING)
                     /\ lock' = "none"
                     /\ last' = Result("resume_session", session_id, "True")
                     /\ notified' = << >>
                     /\ UNCHANGED pause_flags
                     /\ pc' = After(t, Idle, session_id, FALSE)

thread_cancel_session(t, session_id) ==
    /\ UNCHANGED <<active_sessions, json_files, pkl_files, id_seq, progress_callbacks, disk>>
    /\ IF pc[t].op = "idle" THEN
           /\ lock = "none"
           /\ UNCHANGED <<execution_states, pause_flags>>
           /\ IF Known(session_id)
              THEN /\ lock' = t
                   /\ pc' = [pc EXCEPT ![t] = Frame("cancel_session", session_id, 309)]
                   /\ UNCHANGED <<last, notified>>
              ELSE /\ last' = Result("cancel_session", session_id, "None")
                   /\ notified' = << >>
                   /\ UNCHANGED <<lock, pc>>
       ELSE
           /\ pc[t].op = "cancel_session" /\ pc[t].session_id = session_id
           /\ CASE pc[t].line = 309 ->
                     /\ execution_states' = Put(execution_states, session_id, CANCELLED)
                     /\ UNCHANGED <<pause_flags, lock, last, notified>>
                     /\ pc' = After(t, At(t, 310), session_id, FALSE)
                [] pc[t].line = 310 ->
                     /\ pause_flags' = Put(pause_flags, session_id, FALSE)
                     /\ lock' = "none"
                     /\ last' = Result("cancel_session", session_id, "None")
                     /\ notified' = << >>
                     /\ UNCHANGED execution_states
                     /\ pc' = After(t, Idle, session_id, FALSE)

\* lines 87-118 of create_checkpoint, run by thread t: the record and the
\* companion file are written and `session` is the registry's dict
WriteFiles(t, frame, current_step, step_index, state_data, next_action, metadata) ==
    LET session_id == frame.session_id
        checkpoint_id == NewCheckpointId
        checkpoint == Checkpoint(session_id, checkpoint_id, current_step, step_index,
                                 state_data, next_action, metadata)
    IN  /\ id_seq' = id_seq + 1
        /\ json_files' = Put(json_files, checkpoint_id, JsonRecord(checkpoint))
        /\ pkl_files' = IF NeedsStateFile(state_data)
                        THEN Put(pkl_files, checkpoint_id, state_data)
                        ELSE pkl_files
        /\ UNCHANGED <<active_sessions, execution_states, pause_flags, last, notified>>
        /\ pc' = After(t, [frame EXCEPT !.line = 121, !.ref = "live",
                                        !.checkpoint_id = checkpoint_id,
                                        !.step_index = step_index],
                       session_id, FALSE)

\* lines 121-122 of create_checkpoint, through the local `session`, the loop
\* of _notify_progress_callbacks (one callback a step, line 282) and the
\* return of the method that made the call. threading.Lock is not
\* reentrant: a callback that calls cancel_session waits at `with self.lock`
\* until the lock is free, whoever holds it
UpdateLines(t, ret, locked) ==
    LET session_id == pc[t].session_id
        appended == [Session(t) EXCEPT !.checkpoints = Append(@, pc[t].checkpoint_id)]
        stepped == [Session(t) EXCEPT !.current_step = pc[t].step_index]
        callbacks == Registered(session_id)
    IN  /\ UNCHANGED <<json_files, pkl_files, id_seq>>
        /\ CASE pc[t].line = 121 ->
                  /\ UNCHANGED <<lock, last, notified, execution_states, pause_flags>>
                  /\ IF pc[t].ref = "live"
                     THEN /\ active_sessions' = Put(active_sessions, session_id, appended)
                          /\ pc' = After(t, At(t, 122), session_id, FALSE)
                     ELSE /\ UNCHANGED active_sessions
                          /\ pc' = After(t, [pc[t] EXCEPT !.line = 122, !.session = appended],
                                         session_id, FALSE)
             [] pc[t].line = 122 ->
                  /\ active_sessions' = IF pc[t].ref = "live"
                                        THEN Put(active_sessions, session_id, stepped)
                                        ELSE active_sessions
                  /\ notified' = << >>
                  /\ UNCHANGED <<execution_states, pause_flags>>
                  /\ IF callbacks = << >>
                     THEN /\ lock' = IF locked THEN "none" ELSE lock
                          /\ last' = Result(pc[t].op, session_id, ret)
                          /\ pc' = After(t, Idle, session_id, FALSE)
                     ELSE /\ UNCHANGED <<lock, last>>
                          /\ pc' = After(t, [pc[t] EXCEPT !.line = 282, !.index = 1],
                                         session_id, FALSE)
             [] pc[t].line = 282 ->
                  LET callback == callbacks[pc[t].index] IN
                  /\ Reenters(callback) => lock = "none"
                  /\ UNCHANGED active_sessions
                  /\ execution_states' = IF Reenters(callback) /\ Known(session_id)
                                         THEN Put(execution_states, session_id, CANCELLED)
                                         ELSE execution_states
                  /\ pause_flags' = IF Reenters(callback) /\ Known(session_id)
                                    THEN Put(pause_flags, session_id, FALSE)
                                    ELSE pause_flags
                  /\ notified' = <<Invocation(callback, pc[t].checkpoint_id)>>
                  /\ IF pc[t].index < Len(callbacks)
                     THEN /\ UNCHANGED <<lock, last>>
                          /\ pc' = After(t, [pc[t] EXCEPT !.index = @ + 1], session_id, FALSE)
                     ELSE /\ lock' = IF locked THEN "none" ELSE lock
                          /\ last' = Result(pc[t].op, session_id, ret)
                          /\ pc' = After(t, Idle, session_id, FALSE)

\* the checkpoints that running calls are still to write
Pending ==
    Cardinality({u \in Threads : pc[u].op \in {"pause_session", "complete_session"}
                                   /\ pc[u].line \in {136, 137, 141, 290, 294}})

thread_create_checkpoint(t, session_id) ==
    /\ UNCHANGED <<progress_callbacks, disk>>
    /\ IF pc[t].op = "idle" THEN
           IF ~Known(session_id) THEN
               /\ last' = Result("create_checkpoint", session_id, "ValueError")
               /\ notified' = << >>
               /\ UNCHANGED <<active_sessions, execution_states, pause_flags,
                              json_files, pkl_files, id_seq, lock, pc>>
           ELSE
               /\ id_seq + Pending < MaxCheckpoints
               /\ UNCHANGED lock
               /\ WriteFiles(t, Frame("create_checkpoint", session_id, 87),
                             "step", MaxSteps, "binary", "", "None")
       ELSE
           /\ pc[t].op = "create_checkpoint" /\ pc[t].session_id = session_id
           /\ UpdateLines(t, "id", FALSE)

thread_pause_session(t, session_id) ==
    /\ UNCHANGED <<progress_callbacks, disk>>
    /\ IF pc[t].op = "idle" THEN
           /\ lock = "none"
           /\ UNCHANGED <<active_sessions, execution_states, pause_flags,
                          json_files, pkl_files, id_seq>>
           /\ IF Known(session_id)
              THEN /\ id_seq + Pending < MaxCheckpoints
                   /\ lock' = t
                   /\ pc' = [pc EXCEPT ![t] = Frame("pause_session", session_id, 136)]
                   /\ UNCHANGED <<last, notified>>
              ELSE /\ last' = Result("pause_session", session_id, "False")
                   /\ notified' = << >>
                   /\ UNCHANGED <<lock, pc>>
       ELSE
           /\ pc[t].op = "pause_session" /\ pc[t].session_id = session_id
           /\ CASE pc[t].line = 136 ->
                     /\ pause_flags' = Put(pause_flags, session_id, TRUE)
                     /\ UNCHANGED <<active_sessions, execution_states, json_files, pkl_files,
                                    id_seq, lock, last, notified>>
                     /\ pc' = After(t, At(t, 137), session_id, FALSE)
                [] pc[t].line = 137 ->
                     /\ execution_states' = Put(execution_states, session_id, PAUSED)
                     /\ UNCHANGED <<active_sessions, pause_flags, json_files, pkl_files,
                                    id_seq, lock, last, notified>>
                     /\ pc' = After(t, At(t, 141), session_id, FALSE)
                [] pc[t].line = 141 ->
                     /\ UNCHANGED lock
                     /\ WriteFiles(t, pc[t], "PAUSED", active_sessions[session_id].current_step,
                                   "plain", "resume_execution", "pause_reason")
                [] pc[t].line \in {121, 122, 282} -> UpdateLines(t, "True", TRUE)

thread_complete_session(t, session_id) ==
    /\ UNCHANGED <<progress_callbacks, disk>>
    /\ IF pc[t].op = "idle" THEN
           /\ lock = "none"
           /\ UNCHANGED <<active_sessions, execution_states, pause_flags,
                          json_files, pkl_files, id_seq>>
           /\ IF Known(session_id)
              THEN /\ id_seq + Pending < MaxCheckpoints
                   /\ lock' = t
                   /\ pc' = [pc EXCEPT ![t] = Frame("complete_session", session_id, 290)]
                   /\ UNCHANGED <<last, notified>>
              ELSE /\ last' = Result("complete_session", session_id, "None")
                   /\ notified' = << >>
                   /\ UNCHANGED <<lock, pc>>
       ELSE
           /\ pc[t].op = "complete_session" /\ pc[t].session_id = session_id
           /\ CASE pc[t].line = 290 ->
                     /\ execution_states' = Put(execution_states, session_id, COMPLETED)
                     /\ UNCHANGED <<active_sessions, pause_flags, json_files, pkl_files,
                                    id_seq, lock, last, notified>>
                     /\ pc' = After(t, At(t, 294), session_id, FALSE)
                [] pc[t].line = 294 ->
                     /\ UNCHANGED lock
                     /\ WriteFiles(t, pc[t], "COMPLETED", active_sessions[session_id].total_steps,
                                   "empty", "session_complete", "completed_at")
                [] pc[t].line \in {121, 122, 282} -> UpdateLines(t, "None", TRUE)

thread_continue_from_checkpoint(t, checkpoint_id) ==
    /\ UNCHANGED <<json_files, pkl_files, id_seq, progress_callbacks, disk, lock>>
    /\ IF pc[t].op = "idle" THEN
           LET loaded == load_checkpoint(checkpoint_id) IN
           IF ~loaded.found THEN
               /\ last' = Result("continue_from_checkpoint", "", "None")
               /\ notified' = << >>
               /\ UNCHANGED <<active_sessions, execution_states, pause_flags, pc>>
           ELSE
               LET session_id == loaded.checkpoint.session_id IN
               /\ active_sessions' = Put(active_sessions, session_id,
                                         RestoredSession(loaded.checkpoint, checkpoint_id))
               /\ UNCHANGED <<execution_states, pause_flags, last, notified>>
               /\ pc' = After(t, [Frame("continue_from_checkpoint", session_id, 218)
                                      EXCEPT !.checkpoint_id = checkpoint_id],
                              session_id, TRUE)
       ELSE
           /\ pc[t].op = "continue_from_checkpoint" /\ pc[t].checkpoint_id = checkpoint_id
           /\ CASE pc[t].line = 218 ->
                     /\ execution_states' = Put(execution_states, pc[t].session_id, RUNNING)
                     /\ UNCHANGED <<active_sessions, pause_flags, last, notified>>
                     /\ pc' = After(t, At(t, 219), pc[t].session_id, FALSE)
                [] pc[t].line = 219 ->
                     /\ pause_flags' = Put(pause_flags, pc[t].session_id, FALSE)
                     /\ last' = Result("continue_from_checkpoint", pc[t].session_id, "dict")
                     /\ notified' = << >>
                     /\ UNCHANGED <<active_sessions, execution_states>>
                     /\ pc' = After(t, Idle, pc[t].session_id, FALSE)

\* the other threads that are half way through a transition of session_id
HalfDoneBeside(t, session_id) ==
    {u \in Threads \ {t} : HalfDone(pc[u]) /\ pc[u].session_id = session_id}

\* what a read of session_id gives at the moment thread t calls: the record
\* as it is, or as it was before the transition that is half done
EntryViews(t, session_id) ==
    IF HalfDoneBeside(t, session_id) = {} THEN {View(session_id)}
    ELSE {pc[u].before : u \in HalfDoneBeside(t, session_id)}

\* is_paused run by thread t: one read of pause_flags
thread_is_paused(t, session_id) ==
    /\ pc[t].op = "idle"
    /\ last' = Result("is_paused", session_id,
                      IF is_paused(session_id) THEN "True" ELSE "False")
    /\ notified' = << >>
    /\ UNCHANGED <<active_sessions, execution_states, pause_flags, json_files, pkl_files,
                   id_seq, progress_callbacks, disk, lock, pc>>

\* get_session_progress run by thread t: the membership test and `session`
\* (lines 233-236), then the reads of the returned dict, in its order
thread_get_session_progress(t, session_id) ==
    /\ UNCHANGED <<active_sessions, execution_states, pause_flags, json_files, pkl_files,
                   id_seq, progress_callbacks, disk, lock>>
    /\ IF pc[t].op = "idle" THEN
           IF ~Known(session_id) THEN
               /\ last' = Result("get_session_progress", session_id, "None")
               /\ notified' = << >>
               /\ UNCHANGED pc
           ELSE
               /\ pc' = [pc EXCEPT ![t] =
                            [Frame("get_session_progress", session_id, 240)
                                EXCEPT !.ref = "live", !.views = EntryViews(t, session_id)]]
               /\ UNCHANGED <<last, notified>>
       ELSE
           /\ pc[t].op = "get_session_progress" /\ pc[t].session_id = session_id
           /\ CASE pc[t].line = 240 ->
                     /\ pc' = [pc EXCEPT ![t].line = 243,
                                         ![t].result =
                                             [current_step |-> Session(t).current_step,
                                              total_steps |-> Session(t).total_steps]]
                     /\ UNCHANGED <<last, notified>>
                [] pc[t].line = 243 ->
                     IF session_id \notin DOMAIN execution_states THEN
                         /\ pc' = [pc EXCEPT ![t] = Idle]
                         /\ last' = Result("get_session_progress", session_id, "KeyError")
                         /\ notified' = << >>
                     ELSE
                         /\ pc' = [pc EXCEPT ![t].line = 244,
                                             ![t].result =
                                                 [current_step |-> pc[t].result.current_step,
                                                  total_steps |-> pc[t].result.total_steps,
                                                  state |-> execution_states[session_id]]]
                         /\ UNCHANGED <<last, notified>>
                [] pc[t].line = 244 ->
                     /\ pc' = [pc EXCEPT ![t].line = 245,
                                         ![t].result =
                                             [current_step |-> pc[t].result.current_step,
                                              total_steps |-> pc[t].result.total_steps,
                                              state |-> pc[t].result.state,
                                              is_paused |-> is_paused(session_id)]]
                     /\ UNCHANGED <<last, notified>>
                [] pc[t].line = 245 ->
                     /\ pc' = [pc EXCEPT ![t] = Idle]
                     /\ last' = Result("get_session_progress", session_id, "dict")
                     /\ notified' = << >>

\* the dict a get_session_progress call of thread t at line 245 returns
Returns(t) ==
    LET result == pc[t].result IN
    [ret |-> "dict",
     session_id |-> pc[t].session_id,
     current_step |-> result.current_step,
     total_steps |-> result.total_steps,
     progress_percentage |-> Percentage(result.current_step, result.total_steps),
     state |-> result.state,
     is_paused |-> result.is_paused,
     checkpoints_count |-> Len(Session(t).checkpoints)]

\* the sessions the threads work on
ThreadSessions == {"s1"}

\* the controller thread starts, pauses, resumes, completes and cancels; the
\* worker thread checkpoints, restores, cancels and reads
Controllers == Threads \ Workers

NextThreads ==
    \/ \E t \in Controllers, s \in ThreadSessions : thread_start_session(t, s)
    \/ \E t \in Workers, s \in ThreadSessions : thread_create_checkpoint(t, s)
    \/ \E t \in Controllers, s \in ThreadSessions : thread_pause_session(t, s)
    \/ \E t \in Controllers, s \in ThreadSessions : thread_resume_session(t, s)
    \/ \E t \in Controllers, s \in ThreadSessions : thread_complete_session(t, s)
    \/ \E t \in Threads, s \in ThreadSessions : thread_cancel_session(t, s)
    \/ \E t \in Workers, c \in CheckpointIdArgs : thread_continue_from_checkpoint(t, c)
    \/ \E t \in Workers, s \in ThreadSessions : thread_is_paused(t, s)
    \/ \E t \in Workers, s \in ThreadSessions : thread_get_session_progress(t, s)

SpecThreads == Init /\ [][NextThreads]_vars

(***************************************************************************)
(* Callbacks that call back into the manager: sessions are started, paused *)
(* and completed by the controller thread and checkpointed by the worker   *)
(* while callbacks are registered; a thread inside a call keeps running    *)
(***************************************************************************)
ReentrantCallbacks == {"cb_ok", "cb_cancel"}

\* the steps of thread t once it is inside a call
Continue(t) ==
    /\ pc[t].op # "idle"
    /\ \E s \in ThreadSessions :
          \/ thread_start_session(t, s)
          \/ thread_create_checkpoint(t, s)
          \/ thread_pause_session(t, s)
          \/ thread_complete_session(t, s)

NextReentrant ==
    \/ \E s \in ThreadSessions, cb \in ReentrantCallbacks : register_progress_callback(s, cb)
    \/ \E t \in Controllers, s \in ThreadSessions : thread_start_session(t, s)
    \/ \E t \in Workers, s \in ThreadSessions : thread_create_checkpoint(t, s)
    \/ \E t \in Controllers, s \in ThreadSessions : thread_pause_session(t, s)
    \/ \E t \in Controllers, s \in ThreadSessions : thread_complete_session(t, s)

SpecReentrant == Init /\ [][NextReentrant]_vars /\ \A t \in Threads : WF_vars(Continue(t))

(***************************************************************************)
(* Properties.  A step is a call of method op on session s when the next   *)
(* state's `last` says so.                                                 *)
(***************************************************************************)
Called(op, s) == last'.op = op /\ last'.session_id = s

History(s) == active_sessions[s].checkpoints

StoreUnchanged == json_files' = json_files /\ pkl_files' = pkl_files

\* session s is the same before and after the step (or unknown in both)
SessionUnchanged(s) ==
    /\ Known(s) <=> Known(s)'
    /\ Known(s) =>
          /\ active_sessions'[s] = active_sessions[s]
          /\ execution_states'[s] = execution_states[s]
          /\ pause_flags'[s] = pause_flags[s]

Terminal == {COMPLETED, ERROR, CANCELLED}

LegalTransitions ==
    {<<RUNNING, PAUSED>>, <<RUNNING, COMPLETED>>, <<RUNNING, CANCELLED>>,
     <<RUNNING, ERROR>>, <<PAUSED, RUNNING>>, <<PAUSED, CANCELLED>>}

\* C1: every change of a session's state made by pause_session,
\* resume_session, complete_session or cancel_session is a transition of the
\* state machine Running -> {Paused, Completed, Error, Cancelled},
\* Paused -> {Running, Cancelled}; terminal states are never left.
C1_LegalTransitions ==
    [][\A s \in Sessions :
          (/\ last'.op \in {"pause_session", "resume_session",
                            "complete_session", "cancel_session"}
           /\ Known(s) /\ Known(s)'
           /\ execution_states'[s] # execution_states[s])
          => <<execution_states[s], execution_states'[s]>> \in LegalTransitions]_vars

\* C2: pause_session on an unknown session, or on one that is Paused,
\* Completed, Error or Cancelled, returns False, writes no checkpoint and
\* leaves the session's history, state and pause flag as they were.
C2_PauseRejected ==
    [][\A s \in Sessions :
          (/\ Called("pause_session", s)
           /\ (~Known(s) \/ execution_states[s] \in {PAUSED} \cup Terminal))
          => /\ last'.ret = "False"
             /\ StoreUnchanged
             /\ SessionUnchanged(s)]_vars

\* C3: pause_session on a Running session returns True; afterwards the pause
\* flag is set (is_paused is true), the state is Paused, and the history is
\* longer by exactly one checkpoint, labeled "PAUSED", whose step_index is
\* the session's current_step before the call; current_step is unchanged.
C3_PauseRunning ==
    [][\A s \in Sessions :
          (/\ Called("pause_session", s)
           /\ Known(s) /\ execution_states[s] = RUNNING)
          => /\ last'.ret = "True"
             /\ is_paused(s)'
             /\ execution_states'[s] = PAUSED
             /\ Len(History(s)') = Len(History(s)) + 1
             /\ LET c == History(s)'[Len(History(s)')] IN
                  /\ c \in DOMAIN json_files' /\ c \notin DOMAIN json_files
                  /\ json_files'[c].current_step = "PAUSED"
                  /\ json_files'[c].step_index = active_sessions[s].current_step
             /\ active_sessions'[s].current_step = active_sessions[s].current_step]_vars

\* C4: resume_session returns True exactly when the session is known and
\* Paused; then the pause flag is cleared (is_paused is false) and the state
\* is Running; otherwise it returns False and changes nothing.  In both cases
\* no checkpoint is written and current_step and the history are unchanged.
C4_Resume ==
    [][\A s \in Sessions :
          Called("resume_session", s)
          => /\ last'.ret \in {"True", "False"}
             /\ (last'.ret = "True") <=>
                    (s \in DOMAIN active_sessions /\ execution_states[s] = PAUSED)
             /\ last'.ret = "True" =>
                    /\ Known(s)'
                    /\ ~is_paused(s)'
                    /\ pause_flags'[s] = FALSE
                    /\ execution_states'[s] = RUNNING
             /\ last'.ret = "False" =>
                    UNCHANGED <<active_sessions, execution_states, pause_flags>>
             /\ StoreUnchanged
             /\ active_sessions' = active_sessions
             /\ \A t \in Sessions \ {s} : SessionUnchanged(t)]_vars

\* a resume_session that returned True on a session with a checkpoint history
C4_Witness ==
    /\ last.op = "resume_session" /\ last.ret = "True"
    /\ Len(History(last.session_id)) > 0
    /\ execution_states[last.session_id] = RUNNING

\* C5: complete_session on a known Running session with total_steps = n
\* leaves the state Completed and appends exactly one checkpoint labeled
\* "COMPLETED" with step_index = n and progress_percentage = 100; afterwards
\* get_session_progress reports current_step = n and 100 percent.  On an
\* unknown session it changes nothing.
C5_Complete ==
    [][\A s \in Sessions :
          Called("complete_session", s)
          => /\ (Known(s) /\ execution_states[s] = RUNNING) =>
                  LET n == active_sessions[s].total_steps IN
                  /\ execution_states'[s] = COMPLETED
                  /\ Len(History(s)') = Len(History(s)) + 1
                  /\ LET c == History(s)'[Len(History(s)')] IN
                       /\ c \in DOMAIN json_files' /\ c \notin DOMAIN json_files
                       /\ json_files'[c].current_step = "COMPLETED"
                       /\ json_files'[c].step_index = n
                       /\ json_files'[c].progress_percentage = PctOfInt(100)
                  /\ get_session_progress(s)'.ret = "dict"
                  /\ get_session_progress(s)'.current_step = n
                  /\ get_session_progress(s)'.progress_percentage = PctOfInt(100)
             /\ ~Known(s) =>
                  UNCHANGED <<active_sessions, execution_states, pause_flags,
                              json_files, pkl_files>>]_vars

\* C6: start_session with total_steps <= 0 fails with InvalidArgument and
\* creates or overwrites no registry entry; with total_steps > 0 it leaves
\* the entry Running, not paused, at current_step 0 with an empty history, so
\* that get_session_progress reports 0 percent.
C6_Start ==
    [][\A s \in Sessions :
          Called("start_session", s)
          => \/ /\ last'.ret = "InvalidArgument"
                /\ UNCHANGED <<active_sessions, execution_states, pause_flags>>
             \/ /\ Known(s)'
                /\ active_sessions'[s].total_steps > 0
                /\ execution_states'[s] = RUNNING
                /\ pause_flags'[s] = FALSE
                /\ active_sessions'[s].current_step = 0
                /\ History(s)' = << >>
                /\ get_session_progress(s)'.ret = "dict"
                /\ get_session_progress(s)'.progress_percentage = PctOfInt(0)]_vars

\* C7: between its creation and its replacement, a session's current_step
\* never decreases under create_checkpoint, pause_session, resume_session,
\* complete_session and cancel_session.
C7_MonotonicStep ==
    [][\A s \in Sessions :
          (/\ last'.op \in {"create_checkpoint", "pause_session", "resume_session",
                            "complete_session", "cancel_session"}
           /\ Known(s) /\ Known(s)')
          => active_sessions'[s].current_step >= active_sessions[s].current_step]_vars

\* C8: every session in the registry has 0 <= current_step <= total_steps.
C8_StepInRange ==
    \A s \in DOMAIN active_sessions :
        /\ 0 <= active_sessions[s].current_step
        /\ active_sessions[s].current_step <= active_sessions[s].total_steps

\* C9: every checkpoint in the store has 0 <= progress_percentage <= 100 with
\* progress_percentage = step_index / total_steps * 100 (total_steps is never
\* zero in a stored record), and along a session's history checkpoints with
\* increasing step_index have non-decreasing progress_percentage.
C9_Percentage ==
    /\ \A c \in DOMAIN json_files :
          /\ json_files[c].total_steps # 0
          /\ json_files[c].progress_percentage =
                 Percentage(json_files[c].step_index, json_files[c].total_steps)
          /\ PctLeq(PctOfInt(0), json_files[c].progress_percentage)
          /\ PctLeq(json_files[c].progress_percentage, PctOfInt(100))
    /\ \A s \in DOMAIN active_sessions :
          \A i, j \in 1 .. Len(History(s)) :
              (/\ i < j
               /\ History(s)[i] \in DOMAIN json_files
               /\ History(s)[j] \in DOMAIN json_files
               /\ json_files[History(s)[i]].step_index < json_files[History(s)[j]].step_index)
              => PctLeq(json_files[History(s)[i]].progress_percentage,
                        json_files[History(s)[j]].progress_percentage)

\* the ids found in some session's history
HistoryIds ==
    UNION {{History(s)[i] : i \in 1 .. Len(History(s))} : s \in DOMAIN active_sessions}

\* the step wrote a checkpoint for session s: a create_checkpoint that
\* returned an id, directly or inside pause_session or complete_session
CheckpointSaved(s) ==
    \/ Called("create_checkpoint", s) /\ last'.ret = "id"
    \/ Called("pause_session", s) /\ last'.ret = "True"
    \/ Called("complete_session", s) /\ last'.ret = "None" /\ Known(s)

\* C10: each successful create_checkpoint adds exactly one record to the
\* store, under an id no existing checkpoint has, appends exactly that id as
\* the last element of the session's history, sets current_step to the
\* step_index it recorded, and leaves every record written before and every
\* other session's entry unchanged.
C10_OneCheckpointPerSave ==
    [][\A s \in Sessions :
          CheckpointSaved(s)
          => \E c \in DOMAIN json_files' :
                /\ c \notin DOMAIN json_files
                /\ c \notin DOMAIN pkl_files
                /\ c \notin HistoryIds
                /\ DOMAIN json_files' = DOMAIN json_files \cup {c}
                /\ \A d \in DOMAIN json_files : json_files'[d] = json_files[d]
                /\ DOMAIN pkl_files' \subseteq DOMAIN pkl_files \cup {c}
                /\ \A d \in DOMAIN pkl_files :
                      d \in DOMAIN pkl_files' /\ pkl_files'[d] = pkl_files[d]
                /\ json_files'[c].session_id = s
                /\ json_files'[c].checkpoint_id = c
                /\ History(s)' = Append(History(s), c)
                /\ active_sessions'[s].current_step = json_files'[c].step_index
                /\ active_sessions'[s].total_steps = active_sessions[s].total_steps
                /\ \A t \in Sessions \ {s} :
                      /\ Known(t) <=> Known(t)'
                      /\ Known(t) => active_sessions'[t] = active_sessions[t]]_vars

\* a create_checkpoint that returned an id while the store already held a
\* checkpoint of the other session
C10_Witness ==
    /\ last.op = "create_checkpoint" /\ last.ret = "id"
    /\ Cardinality(DOMAIN json_files) >= 2
    /\ \E c \in DOMAIN json_files : json_files[c].session_id # last.session_id
    /\ \E t \in DOMAIN active_sessions :
          t # last.session_id /\ Len(History(t)) > 0

\* C11: create_checkpoint for a session id that is not in the registry fails
\* with ValueError (session not found), writes nothing to the store, creates
\* no registry entry and invokes no callback.
C11_UnknownSession ==
    [][\A s \in Sessions :
          (Called("create_checkpoint", s) /\ ~Known(s))
          => /\ last'.ret = "ValueError"
             /\ StoreUnchanged
             /\ id_seq' = id_seq
             /\ UNCHANGED <<active_sessions, execution_states, pause_flags>>
             /\ notified' = << >>]_vars

\* a create_checkpoint that failed on an unknown session for which callbacks
\* are registered, while the store holds checkpoints of the other session
C11_Witness ==
    /\ last.op = "create_checkpoint" /\ last.ret = "ValueError"
    /\ ~Known(last.session_id)
    /\ Len(Registered(last.session_id)) > 0
    /\ DOMAIN json_files # {}

\* the step is a create_checkpoint for session s that gets past its own
\* errors: called directly, or from pause_session or complete_session
CheckpointMade(s) ==
    /\ last'.op \in {"create_checkpoint", "pause_session", "complete_session"}
    /\ last'.session_id = s
    /\ Known(s) /\ active_sessions[s].total_steps # 0

\* what the method returns when its checkpoint is written
Returned(op) ==
    IF op = "create_checkpoint" THEN "id" ELSE IF op = "pause_session" THEN "True" ELSE "None"

\* C18: each create_checkpoint for session s (the ones made by pause_session
\* and complete_session too) invokes every callback registered for s exactly
\* once, in registration order, with the new checkpoint, and no callback of
\* another session; a callback that raises stops neither the later
\* callbacks nor the call, which returns as usual with the record stored and
\* the id appended to the history.
C18_Callbacks ==
    [][\A s \in Sessions :
          CheckpointMade(s)
          => /\ Len(History(s)') = Len(History(s)) + 1
             /\ LET c == History(s)'[Len(History(s)')] IN
                  /\ c \in DOMAIN json_files' /\ c \notin DOMAIN json_files
                  /\ notified' = [i \in 1 .. Len(Registered(s)) |->
                                     Invocation(Registered(s)[i], c)]
             /\ last'.ret = Returned(last'.op)
             /\ progress_callbacks' = progress_callbacks]_vars

\* a pause_session whose checkpoint reached a raising callback and then the
\* one registered after it, while the other session has a callback too
C18_Witness ==
    /\ last.op = "pause_session" /\ last.ret = "True"
    /\ Len(notified) = 2
    /\ notified[1].callback = "cb_raise" /\ notified[2].callback = "cb_ok"
    /\ notified[1].checkpoint_id = notified[2].checkpoint_id
    /\ \E t \in DOMAIN progress_callbacks :
          t # last.session_id /\ Len(progress_callbacks[t]) > 0

\* C12: continue_from_checkpoint(c) for an id with no record in the store
\* returns None and leaves the registry unchanged; for an id in the store,
\* whether or not its session is in the registry, it creates or replaces
\* exactly the entry of the record's session_id, with current_step, total_steps
\* and context taken from the record, state Running, pause flag False and
\* history [c], and leaves all other sessions unchanged.
C12_Continue ==
    [][\A c \in CheckpointIdArgs :
          continue_from_checkpoint(c)
          => IF c \notin DOMAIN json_files
             THEN /\ last'.ret = "None"
                  /\ UNCHANGED <<active_sessions, execution_states, pause_flags>>
             ELSE LET sid == json_files[c].session_id IN
                  /\ last'.ret = "dict" /\ last'.session_id = sid
                  /\ Known(sid)'
                  /\ active_sessions'[sid].current_step = json_files[c].step_index
                  /\ active_sessions'[sid].total_steps = json_files[c].total_steps
                  /\ active_sessions'[sid].context = json_files[c].execution_context
                  /\ execution_states'[sid] = RUNNING
                  /\ pause_flags'[sid] = FALSE
                  /\ History(sid)' = <<c>>
                  /\ \A t \in Sessions \ {sid} : SessionUnchanged(t)
                  /\ StoreUnchanged]_vars

\* a restore from a checkpoint taken at a step other than 0, in a registry
\* that was lost (the store holds a checkpoint of a session the registry
\* does not know)
C12_Witness ==
    /\ last.op = "continue_from_checkpoint" /\ last.ret = "dict"
    /\ DOMAIN active_sessions = {last.session_id}
    /\ \E d \in DOMAIN json_files : json_files[d].session_id # last.session_id
    /\ \E c \in DOMAIN json_files :
          /\ History(last.session_id) = <<c>>
          /\ json_files[c].step_index > 0
          /\ active_sessions[last.session_id].current_step = json_files[c].step_index

\* C17: list_session_checkpoints(s) returns, for a known session, one
\* summary per id of the session's history, in history order, so that its
\* length is the checkpoints_count of get_session_progress(s); for an
\* unknown session it returns the empty list.
C17_ListMatchesHistory ==
    \A s \in Sessions :
        IF Known(s)
        THEN /\ Len(list_session_checkpoints(s)) = Len(History(s))
             /\ Len(list_session_checkpoints(s)) = get_session_progress(s).checkpoints_count
             /\ \A i \in 1 .. Len(History(s)) :
                   list_session_checkpoints(s)[i].checkpoint_id = History(s)[i]
        ELSE list_session_checkpoints(s) = << >>

\* the age of checkpoint c's file at clock reading `time`
Age(c, time) == time - mtime(c)

\* C20: cleanup_old_checkpoints(max_age) removes every checkpoint record
\* older than max_age together with its companion file, unless os.remove
\* fails on one of the two, and keeps every record younger than max_age, with
\* its companion, as it was; a failure on one file does not keep the sweep
\* from removing the other expired records.  The registry is not touched.
C20_Cleanup ==
    [][\A m \in HoursArgs, n \in TimeArgs, f \in FailingArgs :
          (last'.op = "cleanup_old_checkpoints" /\ cleanup_old_checkpoints(m, n, f))
          => /\ \A c \in DOMAIN json_files :
                   /\ (Age(c, n) > m /\ JsonFile(c) \notin f /\ StateFile(c) \notin f)
                      => c \notin DOMAIN json_files' /\ c \notin DOMAIN pkl_files'
                   /\ Age(c, n) < m
                      => /\ c \in DOMAIN json_files' /\ json_files'[c] = json_files[c]
                         /\ c \in DOMAIN pkl_files <=> c \in DOMAIN pkl_files'
                         /\ c \in DOMAIN pkl_files => pkl_files'[c] = pkl_files[c]
             /\ DOMAIN json_files' \subseteq DOMAIN json_files
             /\ DOMAIN pkl_files' \subseteq DOMAIN pkl_files
             /\ UNCHANGED <<active_sessions, execution_states, pause_flags>>]_vars

\* a sweep that removed the newest checkpoint with its companion file while
\* an older one, on which os.remove failed, is still there
C20_Witness ==
    /\ last.op = "cleanup_old_checkpoints"
    /\ id_seq > 1
    /\ id_seq \notin DOMAIN json_files /\ id_seq \notin DOMAIN pkl_files
    /\ \E c \in DOMAIN json_files : c < id_seq /\ c \in DOMAIN pkl_files

\* C19: after a create_checkpoint that returned id c, load_checkpoint(c)
\* returns a checkpoint whose session_id, checkpoint_id, current_step (the
\* label), step_index, total_steps, progress_percentage, state_data,
\* execution_context, next_action and metadata are the ones create_checkpoint
\* was given and computed.
C19_RoundTrip ==
    [][\A s \in Sessions, i \in StepIndexArgs, d \in BagArgs, c \in CheckpointIdArgs :
          (/\ last'.op = "create_checkpoint" /\ last'.ret = "id"
           /\ c = NewCheckpointId
           /\ create_checkpoint(s, "step", i, OrEmpty(d)))
          => /\ load_checkpoint(c)'.found
             /\ load_checkpoint(c)'.checkpoint =
                    Checkpoint(s, c, "step", i, OrEmpty(d), "", "None")]_vars

\* the step is a create_checkpoint for session s, called directly or from
\* pause_session or complete_session, one of whose writes fails
\* (complete_session passes an empty state_data, which has no companion file)
PersistenceFails(s) ==
    /\ last'.op \in {"create_checkpoint", "pause_session", "complete_session"}
    /\ last'.session_id = s
    /\ Known(s) /\ CheckpointError(s) = ""
    /\ disk \in JsonFaults \/ (disk \in PklFaults /\ last'.op # "complete_session")

\* C16: when the write of the record or of the companion file fails during
\* create_checkpoint (called directly or from pause_session or
\* complete_session), the error reaches the caller, load_checkpoint finds no
\* checkpoint under the new id, and the session's history, current_step,
\* state and pause flag are what they were before the call.
C16_FailureAtomicity ==
    [][\A s \in Sessions, c \in CheckpointIdArgs :
          (PersistenceFails(s) /\ c = NewCheckpointId)
          => /\ last'.ret = "OSError"
             /\ ~load_checkpoint(c)'.found
             /\ SessionUnchanged(s)]_vars

\* thread t is in wait_if_paused(s)
Waiting(t, s) == pc[t].op = "wait_if_paused" /\ pc[t].session_id = s

\* the call made last resumed or cancelled session s
Released(s) ==
    /\ last.session_id = s
    /\ \/ last.op = "resume_session" /\ last.ret = "True"
       \/ last.op = "cancel_session"

\* the call made last paused session s
PausedAgain(s) ==
    last.op = "pause_session" /\ last.session_id = s /\ last.ret # "False"

\* C15: when the loop condition of a waiting worker is evaluated again and
\* again (weak fairness of the poll step), a worker in wait_if_paused(s)
\* returns after s has been resumed or cancelled, unless s is paused again;
\* and a poll that finds s unknown or not paused returns at once.
C15_WaitEnds ==
    /\ \A t \in Workers, s \in Sessions :
          [](( Waiting(t, s) /\ Released(s) /\ []~PausedAgain(s)) => <>~Waiting(t, s))
    /\ [][\A t \in Workers, s \in Sessions :
             (Waiting(t, s) /\ ~is_paused(s) /\ pc'[t] # pc[t])
             => pc'[t] = Idle /\ last' = Result("wait_if_paused", s, "None")]_vars

\* a worker that has slept in wait_if_paused(s) at the moment cancel_session
\* has cancelled the paused s
C15_Witness ==
    \E t \in Workers :
        /\ pc[t].op = "wait_if_paused" /\ pc[t].slept
        /\ last.op = "cancel_session" /\ last.session_id = pc[t].session_id
        /\ Known(pc[t].session_id)
        /\ execution_states[pc[t].session_id] = CANCELLED
        /\ ~is_paused(pc[t].session_id)
        /\ Len(History(pc[t].session_id)) > 0

\* C13: no two threads are at the same time inside the sections that
\* change the registry (of start_session, pause_session, resume_session,
\* complete_session, cancel_session, the session update of create_checkpoint
\* and the session replacement of continue_from_checkpoint).
C13_MutualExclusion ==
    \A t, u \in Threads : t # u => ~(InSection(pc[t]) /\ InSection(pc[u]))

\* the record of its session that the transition in `frame` leaves
Outcome(frame) ==
    IF frame.op = "start_session"
    THEN [ret |-> "dict", session_id |-> frame.session_id, current_step |-> 0,
          total_steps |-> MaxSteps, progress_percentage |-> Percentage(0, MaxSteps),
          state |-> RUNNING, is_paused |-> FALSE, checkpoints_count |-> 0]
    ELSE IF frame.op = "continue_from_checkpoint"
    THEN LET data == json_files[frame.checkpoint_id] IN
         [ret |-> "dict", session_id |-> frame.session_id, current_step |-> data.step_index,
          total_steps |-> data.total_steps,
          progress_percentage |-> Percentage(data.step_index, data.total_steps),
          state |-> RUNNING, is_paused |-> FALSE, checkpoints_count |-> 1]
    ELSE IF frame.before.ret # "dict" THEN frame.before
    ELSE IF frame.op = "pause_session"
    THEN [frame.before EXCEPT !.state = PAUSED, !.is_paused = TRUE,
                              !.checkpoints_count = @ + 1]
    ELSE IF frame.op = "resume_session"
    THEN [frame.before EXCEPT !.state = RUNNING, !.is_paused = FALSE]
    ELSE [frame.before EXCEPT !.state = CANCELLED, !.is_paused = FALSE]

\* the session records that a read by thread t may return now: those seen
\* since its call, or the one a transition that is half done will leave
Snapshots(t, session_id, seen) ==
    seen \cup {Outcome(pc[u]) : u \in HalfDoneBeside(t, session_id)}

\* no thread moves in the step: a call that returns at once
Unmoved ==
    \A u \in Threads :
        /\ pc'[u].op = pc[u].op
        /\ pc[u].op # "idle" => pc'[u].line = pc[u].line

FlagOf(view) == IF view.ret = "dict" THEN view.is_paused ELSE FALSE

\* C14: a get_session_progress(s) or is_paused(s) call that runs beside
\* start_session, pause_session, resume_session, cancel_session or
\* continue_from_checkpoint on s does not fail, and returns None or a dict
\* whose fields (or the pause flag) are all those of the session's record
\* before that call or all those of the record after it.
C14_ReadsNotTorn ==
    [][\A t \in Threads, s \in ThreadSessions :
          /\ (pc[t].op = "get_session_progress" /\ pc[t].session_id = s /\ pc'[t].op = "idle")
             => /\ last'.ret = "dict"
                /\ Returns(t) \in Snapshots(t, s, pc[t].views)
          /\ (Called("get_session_progress", s) /\ last'.ret = "None" /\ Unmoved
                  /\ pc[t].op = "idle")
             => \E u \in Threads :
                   /\ pc[u].op = "idle"
                   /\ NoView(s, "None") \in Snapshots(u, s, EntryViews(u, s))
          /\ (Called("is_paused", s) /\ Unmoved /\ pc[t].op = "idle")
             => \E u \in Threads :
                   /\ pc[u].op = "idle"
                   /\ (last'.ret = "True") \in
                          {FlagOf(v) : v \in Snapshots(u, s, EntryViews(u, s))}]_vars


\* what load_checkpoint returns when <id>.json is absent: None
NotFound == [found |-> FALSE]

\* C21: load_checkpoint(c) returns not-found when <c>.json is absent, and
\* when <c>.json or its companion file is there but torn it gives the caller
\* something other than not-found.
C21_LoadErrorDistinct ==
    \A c \in CheckpointIdArgs :
        /\ c \notin DOMAIN json_files => load_checkpoint(c) = NotFound
        /\ (c \in DOMAIN json_files /\ Unreadable(c)) => load_checkpoint(c) # NotFound

\* C22: for every session in the registry the pause flag is set exactly when
\* the state is Paused (between calls: every method is one step).
C22_FlagMatchesState ==
    \A s \in DOMAIN active_sessions :
        pause_flags[s] <=> execution_states[s] = PAUSED

\* C23: when no thread is inside a method and a session's history is not
\* empty, its current_step is the step_index of the last checkpoint of the
\* history, whatever the interleaving of create_checkpoint with
\* pause_session, complete_session and continue_from_checkpoint.
C23_StepMatchesLastCheckpoint ==
    (\A t \in Threads : pc[t].op = "idle")
    => \A s \in DOMAIN active_sessions :
          Len(History(s)) > 0
          => active_sessions[s].current_step =
                 json_files[History(s)[Len(History(s))]].step_index

\* C24: every pause_session and complete_session call returns and releases
\* self.lock, also when a callback registered for the session calls a method
\* that takes self.lock while it is notified of the checkpoint.
C24_CallsReturn ==
    \A t \in Threads :
        (pc[t].op \in {"pause_session", "complete_session"})
            ~> (pc[t].op = "idle" /\ lock # t)

====
